---- MODULE Spec2Model ----
(***************************************************************************)
(* Model of auth.js (qwen3-auth): the credential file, the command line    *)
(* (check, clear, help, default = authenticate), the device flow with its   *)
(* bounded polling loop, and the exported refreshToken method.             *)
(*                                                                         *)
(* One process invocation runs at a time; the credential file is the only  *)
(* state that survives an invocation.                                      *)
(***************************************************************************)
EXTENDS Integers, Sequences, FiniteSets, TLC

\* ------------------------------------------------------------------ bounds

\* The clock (Date.now()) takes the values Epoch + i * TickMs, i in 0..MaxTicks.
Epoch == 100000
TickMs == 30000
MaxTicks == 1

Times == {Epoch + i * TickMs : i \in 0..MaxTicks}

\* -------------------------------------------------------------- JS values

\* A JavaScript value, in one record shape so that any two can be compared:
\* t is the type tag, s the payload of a string, n the payload of a number.
\* "absent" marks a property an object does not have (reading it gives
\* undefined); "undefined" is a property that is present and undefined.
Absent == [t |-> "absent", s |-> "", n |-> 0]
Undefined == [t |-> "undefined", s |-> "", n |-> 0]
Null == [t |-> "null", s |-> "", n |-> 0]
NaN == [t |-> "NaN", s |-> "", n |-> 0]
Str(x) == [t |-> "string", s |-> x, n |-> 0]
Num(k) == [t |-> "number", s |-> "", n |-> k]

\* obj.key: a missing property reads as undefined.
Get(obj, key) == IF obj[key].t = "absent" THEN Undefined ELSE obj[key]

\* JavaScript truthiness of a primitive value.
Truthy(v) ==
    \/ v.t = "string" /\ v.s # ""
    \/ v.t = "number" /\ v.n # 0

\* a ?? b, in the place of a || b.
OrNullish(a, b) == IF a.t \in {"undefined", "null"} THEN b ELSE a

\* a || b
Or(a, b) == IF Truthy(a) THEN a ELSE b

\* v * k for a number k: ToNumber(undefined) = NaN, ToNumber(null) = 0,
\* and the strings of this model are not numerals.
Times1000(v) ==
    CASE v.t = "number" -> Num(v.n * 1000)
      [] v.t = "null" -> Num(0)
      [] OTHER -> NaN

\* Date.now() + v for a number or NaN v.
NowPlus(t, v) == IF v.t = "number" THEN Num(t + v.n) ELSE NaN

\* ------------------------------------------------------------ credentials

CredFields == {"access_token", "refresh_token", "token_type", "resource_url", "expiry_date"}

\* The object {} .
EmptyObject == [k \in CredFields |-> Absent]

\* The value of loadCredentials: null, or an object.
JsNull == [t |-> "null", f |-> EmptyObject]
JsObject(fields) == [t |-> "object", f |-> fields]

\* JSON.stringify of an object: a property whose value is undefined is left
\* out, NaN is written as null.
JSONstringify(fields) ==
    [k \in CredFields |->
        CASE fields[k].t = "undefined" -> Absent
          [] fields[k].t = "NaN" -> Null
          [] OTHER -> fields[k]]

\* The credential file: missing, holding the JSON text of an object, or
\* holding a truncated text (a write that failed part-way).
NoFile == [state |-> "missing", json |-> EmptyObject]
Truncated == [state |-> "truncated", json |-> EmptyObject]
JsonFile(json) == [state |-> "json", json |-> json]

\* JSON.parse(readFile): a read or parse failure is caught and gives null.
loadCredentials(f) == IF f.state = "json" THEN JsObject(f.json) ELSE JsNull

\* fs.writeFile after ensureDir, by what the filesystem does:
\*   "ok"     the file holds the new text;
\*   "mkdir"  ensureDir throws, nothing is written;
\*   "open"   the file cannot be opened for writing, nothing is written;
\*   "write"  the file is opened (truncated) and the write fails part-way.
\* The directory of an existing file exists, so mkdir (recursive) succeeds.
SaveOutcomes(f) ==
    IF f.state = "missing" THEN {"ok", "mkdir", "open", "write"} ELSE {"ok", "open", "write"}

FileAfterSave(f, fields, outcome) ==
    CASE outcome = "ok" -> JsonFile(JSONstringify(fields))
      [] outcome = "write" -> Truncated
      [] OTHER -> f

\* isTokenValid with the comparison made inclusive.
isTokenValidInclusive(credentials, t) ==
    IF credentials.t = "null" \/ ~Truthy(Get(credentials.f, "expiry_date"))
    THEN FALSE
    ELSE t <= Get(credentials.f, "expiry_date").n - 30000

\* Check if token is still valid (with 30-second buffer).
isTokenValid(credentials, t) ==
    IF credentials.t = "null" \/ ~Truthy(Get(credentials.f, "expiry_date"))
    THEN FALSE
    ELSE t < Get(credentials.f, "expiry_date").n - 30000

\* ------------------------------------------------------- the token server

TokenFields == {"access_token", "refresh_token", "token_type", "resource_url", "endpoint", "expires_in"}

\* expires_in values (seconds) the server sends.
ExpiresShort == 30
ExpiresLong == 60

\* The JSON bodies of a successful token response. A field the server omits
\* is Absent.
TokenDatas ==
    [access_token : {Str("AT"), Absent},
     refresh_token : {Str("RT"), Absent},
     token_type : {Str("Bearer")},
     resource_url : {Str("portal.qwen.ai"), Absent},
     endpoint : {Absent},
     expires_in : {Num(ExpiresShort), Num(ExpiresLong), Absent}]

NoData == [k \in TokenFields |-> Absent]

\* An Error message is the sequence of its parts; a part stands for a piece
\* of text that contains no other part of the model.
NoError == << >>
Includes(msg, needle) == \E i \in DOMAIN msg : msg[i] = needle

ErrorCodes == {"authorization_pending", "slow_down", "expired_token", "access_denied", "invalid_request"}
ErrorDescriptions == {"try again later", "expired_token", "access_denied"}

\* Messages of the exceptions fetch() and response.json() reject with: a
\* network failure, and a parse failure whose message quotes the body.
ExceptionMessages ==
    {<<"fetch failed">>,
     <<"Unexpected token", "expired_token">>,
     <<"Unexpected token", "access_denied">>}

\* What one fetch of the token endpoint can give: a success body, a parsed
\* error body, or an exception.
Response(kind, data, err, desc, msg) ==
    [kind |-> kind, data |-> data, error |-> err, desc |-> desc, msg |-> msg]

TokenResponses ==
    {Response("ok", d, "", "", NoError) : d \in TokenDatas}
    \cup {Response("error", NoData, e, d, NoError) : e \in ErrorCodes, d \in ErrorDescriptions}
    \cup {Response("throw", NoData, "", "", m) : m \in ExceptionMessages}

\* ResponseOk with the status never looked at.
ResponseOkAlways(r) == TRUE

\* response.ok
ResponseOk(r) == r.kind = "ok"

\* What the loop saw at an attempt: "success", the error code, or "exception".
ResponseKind(r) ==
    CASE r.kind = "ok" -> "success"
      [] r.kind = "error" -> r.error
      [] OTHER -> "exception"

\* ------------------------------------------------------------ pollForToken

maxAttempts == 60
InitialPollInterval == 5000
MaxPollInterval == 10000

Min(a, b) == IF a < b THEN a ELSE b

\* SlowDown with the interval doubled.
SlowDownDouble(p) == Min(p * 2, MaxPollInterval)

\* SlowDown with the growth left out.
SlowDownIgnored(pollInterval) == pollInterval

\* pollInterval = Math.min(pollInterval * 1.5, 10000)
SlowDown(pollInterval) == Min((pollInterval * 15) \div 10, MaxPollInterval)

\* LoopRuns with the bound off by one.
LoopRunsInclusive(attempt) == attempt <= maxAttempts

\* for (let attempt = 0; attempt < maxAttempts; attempt++)
LoopRuns(attempt) == attempt < maxAttempts

\* The credential pollForToken returns for a success body.
PollCredentials(tokenData, t) ==
    [k \in CredFields |->
        CASE k = "access_token" -> Get(tokenData, "access_token")
          [] k = "refresh_token" -> Get(tokenData, "refresh_token")
          [] k = "token_type" -> Get(tokenData, "token_type")
          [] k = "resource_url" -> Or(Get(tokenData, "resource_url"), Get(tokenData, "endpoint"))
          [] k = "expiry_date" -> NowPlus(t, Times1000(Get(tokenData, "expires_in")))]

\* The Error thrown inside the try block for a response (NoError: none).
DeviceCodeExpired == <<"Device code expired. Please restart the authentication process.">>
AuthorizationDenied == <<"Authorization denied by user.">>
AuthenticationTimeout == <<"Authentication timeout. Please try again.">>

ThrownInTry(r) ==
    CASE r.kind = "throw" -> r.msg
      [] r.kind = "error" /\ r.error = "expired_token" -> DeviceCodeExpired
      [] r.kind = "error" /\ r.error = "access_denied" -> AuthorizationDenied
      [] r.kind = "error" /\ r.error \notin {"authorization_pending", "slow_down"} ->
            <<"Authentication failed:", r.error, "-", r.desc>>
      [] OTHER -> NoError

\* Rethrown with every Error passed on.
RethrownAny(msg) == msg # NoError

\* The catch block rethrows when the message mentions one of the two codes.
Rethrown(msg) == Includes(msg, "expired_token") \/ Includes(msg, "access_denied")

\* The credential refreshToken builds from a success body and the
\* credential it was given.
RefreshCredentials(tokenData, credentials, t) ==
    [k \in CredFields |->
        CASE k = "access_token" -> Get(tokenData, "access_token")
          [] k = "refresh_token" -> Or(Get(tokenData, "refresh_token"), Get(credentials.f, "refresh_token"))
          [] k = "token_type" -> Get(tokenData, "token_type")
          [] k = "resource_url" -> Or(Get(tokenData, "resource_url"), Get(credentials.f, "resource_url"))
          [] k = "expiry_date" -> NowPlus(t, Times1000(Get(tokenData, "expires_in")))]

\* ------------------------------------------------------------------- state

VARIABLES
    file,            \* the credential file ~/.qwen/oauth_creds.json
    now,             \* the clock Date.now() reads
    pc,              \* where the running invocation is ("idle": none runs)
    cmd,             \* the command of the running invocation
    attempt,         \* pollForToken: the loop counter
    pollInterval,    \* pollForToken: the current interval
    wait,            \* the delay of the pending setTimeout (0: none pending)
    lastResp,        \* what the exchange attempt being handled got ("": none)
    waits,           \* the setTimeout delays so far, while the session follows Script
    onScript,        \* the responses so far are a prefix of Script
    credentials,     \* the local variable credentials of the operation (null: not set)
    error,           \* the message of the Error the operation ended with
    exitCode,        \* the exit code of the process
    report,          \* the line the command printed about its result
    deviceCodeReqs,  \* requests to /device/code in this invocation
    tokenReqs,       \* device-code exchanges sent to /token in this invocation
    refreshReqs,     \* refresh requests sent to /token in this invocation
    saveCalls,       \* calls of saveCredentials in this invocation
    refreshGiven,    \* the credential refreshToken was called with (null: not called)
    refreshData,     \* the success body refreshToken received (NoData: none)
    startCase        \* what the stored credential was when the command began

vars == <<file, now, pc, cmd, attempt, pollInterval, wait, lastResp, waits, onScript,
          credentials, error, exitCode, report, deviceCodeReqs, tokenReqs, refreshReqs,
          saveCalls, refreshGiven, refreshData, startCase>>

\* The variables of one invocation, as a fresh process has them.
FreshProcess ==
    /\ attempt = 0
    /\ pollInterval = InitialPollInterval
    /\ wait = 0
    /\ lastResp = ""
    /\ waits = << >>
    /\ onScript = TRUE
    /\ credentials = JsNull
    /\ error = NoError
    /\ exitCode = 0
    /\ report = ""
    /\ deviceCodeReqs = 0
    /\ tokenReqs = 0
    /\ refreshReqs = 0
    /\ saveCalls = 0
    /\ refreshGiven = JsNull
    /\ refreshData = NoData
    /\ startCase = ""

Init ==
    /\ file = NoFile
    /\ now = Epoch
    /\ pc = "idle"
    /\ cmd = ""
    /\ FreshProcess

pollVars == <<attempt, pollInterval, wait, lastResp, waits, onScript>>
netVars == <<deviceCodeReqs, tokenReqs, refreshReqs>>
refreshVars == <<refreshGiven, refreshData>>

\* The stored credential as the validity rule of isTokenValid classes it.
StoredCase(f, t) ==
    CASE loadCredentials(f).t = "null" -> "absent"
      [] isTokenValid(loadCredentials(f), t) -> "valid"
      [] Truthy(Get(loadCredentials(f).f, "refresh_token")) -> "expired_refreshable"
      [] OTHER -> "expired"

\* Time passes.
Tick ==
    /\ now + TickMs \in Times
    /\ now' = now + TickMs
    /\ UNCHANGED <<file, pc, cmd, pollVars, credentials, error, exitCode, report, netVars,
                   saveCalls, refreshVars, startCase>>

\* ------------------------------------------------------------ main: check

CheckReport(loaded, t) ==
    IF loaded.t # "null"
    THEN IF isTokenValid(loaded, t) THEN "Valid credentials found!" ELSE "Credentials found but expired"
    ELSE "No credentials found"

\* Check that also removes a credential it finds expired.
CheckRemovingExpired ==
    /\ pc = "idle"
    /\ cmd' = "check"
    /\ report' = CheckReport(loadCredentials(file), now)
    /\ credentials' = loadCredentials(file)
    /\ file' = IF CheckReport(loadCredentials(file), now) = "Credentials found but expired"
               THEN NoFile ELSE file
    /\ startCase' = StoredCase(file, now)
    /\ pc' = "exited"
    /\ UNCHANGED <<now, pollVars, error, exitCode, netVars, saveCalls, refreshVars>>

Check ==
    /\ pc = "idle"
    /\ cmd' = "check"
    /\ report' = CheckReport(loadCredentials(file), now)
    /\ credentials' = loadCredentials(file)
    /\ startCase' = StoredCase(file, now)
    /\ pc' = "exited"
    /\ UNCHANGED <<file, now, pollVars, error, exitCode, netVars, saveCalls, refreshVars>>

\* ------------------------------------------------------------ main: clear

\* fs.unlink: a missing file is ENOENT; an existing one is removed unless the
\* directory refuses it.
UnlinkOutcomes(f) == IF f.state = "missing" THEN {"ENOENT"} ELSE {"ok", "EPERM"}

\* case 'clear': try { saveCredentials({}); unlink } catch { }. The unlink
\* runs only after a save that did not throw.
Clear ==
    /\ pc = "idle"
    /\ cmd' = "clear"
    /\ \E saved \in SaveOutcomes(file) :
         IF saved # "ok"
         THEN /\ file' = FileAfterSave(file, EmptyObject, saved)
              /\ report' = "No credentials to clear"
         ELSE \E unlinked \in UnlinkOutcomes(FileAfterSave(file, EmptyObject, saved)) :
                /\ file' = IF unlinked = "ok" THEN NoFile
                           ELSE FileAfterSave(file, EmptyObject, saved)
                /\ report' = IF unlinked = "ok" THEN "Credentials cleared successfully!"
                             ELSE "No credentials to clear"
    /\ saveCalls' = saveCalls + 1
    /\ startCase' = StoredCase(file, now)
    /\ pc' = "exited"
    /\ UNCHANGED <<now, pollVars, credentials, error, exitCode, netVars, refreshVars>>

\* ------------------------------------------------------------- main: help

Help ==
    /\ pc = "idle"
    /\ cmd' = "help"
    /\ report' = "Qwen Authentication Script"
    /\ pc' = "exited"
    /\ UNCHANGED <<file, now, pollVars, credentials, error, exitCode, netVars,
                   saveCalls, refreshVars, startCase>>

\* ----------------------------------------------- main: default, authenticate

\* Fail with the process.exit(1) left out.
FailWithoutExit(msg) ==
    /\ error' = msg
    /\ exitCode' = 0
    /\ pc' = "exited"

\* The catch of authenticate: console.error, process.exit(1).
Fail(msg) ==
    /\ error' = msg
    /\ exitCode' = 1
    /\ pc' = "exited"

\* What the device-code request can give: a body with a device_code, a body
\* without one, an HTTP error status, or a rejected fetch.
DeviceCodeOutcomes == {"device_code", "no_device_code", "http_error", "throw"}

DeviceAuthorizationFailed == <<"Device authorization failed">>

\* authenticate() up to and including initiateDeviceFlow(): no credential is
\* loaded, the device-code request is the first thing done.
Authenticate ==
    /\ pc = "idle"
    /\ cmd' = "default"
    /\ startCase' = StoredCase(file, now)
    /\ deviceCodeReqs' = deviceCodeReqs + 1
    /\ \E got \in DeviceCodeOutcomes :
         CASE got = "device_code" ->
                /\ pc' = "poll_fetch"
                /\ UNCHANGED <<error, exitCode>>
           [] got = "throw" -> Fail(<<"fetch failed">>)
           [] OTHER -> Fail(DeviceAuthorizationFailed)
    /\ UNCHANGED <<file, now, pollVars, credentials, report, tokenReqs, refreshReqs,
                   saveCalls, refreshVars>>

\* The scripted response sequence of the polling test.
Script == <<"authorization_pending", "authorization_pending", "slow_down", "success">>

\* Whether the session still follows Script after response r to this attempt.
FollowsScript(on, att, r) ==
    on /\ att < Len(Script) /\ ResponseKind(r) = Script[att + 1]

\* One iteration of the loop of pollForToken up to its await of setTimeout
\* or its throw; when it returns a credential, the rest of authenticate() as
\* well: saveCredentials, displayCredentials, return.
PollAttempt ==
    /\ pc = "poll_fetch"
    /\ LoopRuns(attempt)
    /\ tokenReqs' = tokenReqs + 1
    /\ \E r \in TokenResponses :
         /\ lastResp' = ResponseKind(r)
         /\ onScript' = FollowsScript(onScript, attempt, r)
         /\ IF ResponseOk(r)
            THEN \E saved \in SaveOutcomes(file) :
                   /\ file' = FileAfterSave(file, PollCredentials(r.data, now), saved)
                   /\ saveCalls' = saveCalls + 1
                   /\ credentials' = JsObject(PollCredentials(r.data, now))
                   /\ IF saved = "ok"
                      THEN /\ report' = "AUTHENTICATION SUCCESSFUL!"
                           /\ pc' = "exited"
                           /\ UNCHANGED <<error, exitCode>>
                      ELSE /\ Fail(<<"save failed", saved>>)
                           /\ UNCHANGED report
                   /\ UNCHANGED <<pollInterval, wait, waits>>
            ELSE IF Rethrown(ThrownInTry(r))
            THEN /\ Fail(ThrownInTry(r))
                 /\ UNCHANGED <<file, pollInterval, wait, waits, credentials, report, saveCalls>>
            ELSE /\ pollInterval' = IF r.kind = "error" /\ r.error = "slow_down"
                                    THEN SlowDown(pollInterval) ELSE pollInterval
                 /\ wait' = pollInterval'
                 /\ waits' = IF FollowsScript(onScript, attempt, r)
                             THEN Append(waits, pollInterval') ELSE << >>
                 /\ pc' = "poll_wait"
                 /\ UNCHANGED <<file, credentials, error, exitCode, report, saveCalls>>
    /\ UNCHANGED <<now, cmd, attempt, deviceCodeReqs, refreshReqs, refreshVars, startCase>>

\* The setTimeout fires; continue (or the end of the catch block): attempt++.
PollWait ==
    /\ pc = "poll_wait"
    /\ wait' = 0
    /\ attempt' = attempt + 1
    /\ lastResp' = ""
    /\ pc' = "poll_fetch"
    /\ UNCHANGED <<file, now, cmd, pollInterval, waits, onScript, credentials,
                   error, exitCode, report, netVars, saveCalls, refreshVars, startCase>>

\* PollTimeout with the loop started over in the place of the throw.
PollTimeoutRestarts ==
    /\ pc = "poll_fetch"
    /\ ~LoopRuns(attempt)
    /\ attempt' = 0
    /\ tokenReqs' = 0
    /\ UNCHANGED <<file, now, pc, cmd, pollInterval, wait, lastResp, waits, onScript,
                   credentials, error, exitCode, report, deviceCodeReqs, refreshReqs,
                   saveCalls, refreshVars, startCase>>

\* The loop is over: throw new Error('Authentication timeout. Please try again.').
PollTimeout ==
    /\ pc = "poll_fetch"
    /\ ~LoopRuns(attempt)
    /\ Fail(AuthenticationTimeout)
    /\ UNCHANGED <<file, now, cmd, pollVars, credentials, report, netVars,
                   saveCalls, refreshVars, startCase>>

\* ------------------------------------------------- the exported refreshToken

\* What the refresh request can give: a success body, an error status, or a
\* rejected fetch.
RefreshResponses ==
    {Response("ok", d, "", "", NoError) : d \in TokenDatas}
    \cup {Response("error", NoData, "invalid_grant", "", NoError),
          Response("throw", NoData, "", "", <<"fetch failed">>)}

\* auth.refreshToken(await auth.loadCredentials()), called by a program that
\* requires this module, on a stored credential that has a refresh token;
\* responses are what the refresh request can give.
RefreshTokenWith(responses) ==
    /\ pc = "idle"
    /\ loadCredentials(file).t = "object"
    /\ Truthy(Get(loadCredentials(file).f, "refresh_token"))
    /\ cmd' = "refreshToken"
    /\ startCase' = StoredCase(file, now)
    /\ refreshReqs' = refreshReqs + 1
    /\ refreshGiven' = loadCredentials(file)
    /\ pc' = "exited"
    /\ \E r \in responses :
         IF ResponseOk(r)
         THEN \E saved \in SaveOutcomes(file) :
                /\ refreshData' = r.data
                /\ saveCalls' = saveCalls + 1
                /\ file' = FileAfterSave(file, RefreshCredentials(r.data, loadCredentials(file), now), saved)
                /\ IF saved = "ok"
                   THEN /\ credentials' = JsObject(RefreshCredentials(r.data, loadCredentials(file), now))
                        /\ error' = NoError
                   ELSE /\ credentials' = JsNull
                        /\ error' = <<"Failed to refresh token:", "save failed", saved>>
         ELSE /\ file' = file
              /\ UNCHANGED <<refreshData, saveCalls>>
              /\ credentials' = JsNull
              /\ error' = IF r.kind = "error"
                          THEN <<"Failed to refresh token:", "Token refresh failed:", r.error, "-", r.desc>>
                          ELSE <<"Failed to refresh token:">> \o r.msg
    /\ UNCHANGED <<now, pollVars, exitCode, report, deviceCodeReqs, tokenReqs>>

RefreshToken == RefreshTokenWith(RefreshResponses)

\* The process is gone; the next invocation starts fresh.
Exit ==
    /\ pc = "exited"
    /\ pc' = "idle"
    /\ cmd' = ""
    /\ attempt' = 0
    /\ pollInterval' = InitialPollInterval
    /\ wait' = 0
    /\ lastResp' = ""
    /\ waits' = << >>
    /\ onScript' = TRUE
    /\ credentials' = JsNull
    /\ error' = NoError
    /\ exitCode' = 0
    /\ report' = ""
    /\ deviceCodeReqs' = 0
    /\ tokenReqs' = 0
    /\ refreshReqs' = 0
    /\ saveCalls' = 0
    /\ refreshGiven' = JsNull
    /\ refreshData' = NoData
    /\ startCase' = ""
    /\ UNCHANGED <<file, now>>

Next ==
    \/ Tick
    \/ Check
    \/ Clear
    \/ Help
    \/ Authenticate
    \/ PollAttempt
    \/ PollWait
    \/ PollTimeout
    \/ RefreshToken
    \/ Exit

Spec == Init /\ [][Next]_vars

\* One authenticate run of a fresh process.
NextPoll ==
    \/ Authenticate
    \/ PollAttempt
    \/ PollWait
    \/ PollTimeout

\* Every request gets its answer or its rejection, every setTimeout fires,
\* and the loop's exit is taken: the awaits of pollForToken complete.
FairSpec ==
    /\ Init
    /\ [][NextPoll]_vars
    /\ WF_vars(PollAttempt)
    /\ WF_vars(PollWait)
    /\ WF_vars(PollTimeout)

\* ------------------------------------------- refreshToken on its own inputs

\* Stored credentials refreshToken is called with.
PreviousCredentials ==
    {[access_token |-> Str("AT"), refresh_token |-> Str("RT"), token_type |-> Str("Bearer"),
      resource_url |-> u, expiry_date |-> Num(Epoch)] : u \in {Str("portal.qwen.ai"), Absent}}

\* Success bodies of the refresh request with values unlike the stored ones,
\* and with refresh_token and resource_url sent empty or null as well.
WideTokenDatas ==
    [access_token : {Str("AT2"), Absent},
     refresh_token : {Str("RT2"), Str(""), Null, Absent},
     token_type : {Str("Bearer")},
     resource_url : {Str("chat.qwen.ai"), Str(""), Absent},
     endpoint : {Absent},
     expires_in : {Num(ExpiresLong), Absent}]

WideRefreshResponses ==
    {Response("ok", d, "", "", NoError) : d \in WideTokenDatas}
    \cup {Response("error", NoData, "invalid_grant", "", NoError)}

InitRefresh ==
    /\ file \in {JsonFile(c) : c \in PreviousCredentials}
    /\ now \in Times
    /\ pc = "idle"
    /\ cmd = ""
    /\ FreshProcess

RefreshTokenWide == RefreshTokenWith(WideRefreshResponses)

NextRefresh ==
    \/ RefreshTokenWide
    \/ Exit

SpecRefresh == InitRefresh /\ [][NextRefresh]_vars

\* ------------------------------------------------------------------ claims

\* C1: an expired_token answer to an exchange attempt ends the loop at once:
\* the invocation is over with the device-code-expired failure, and no wait
\* or further attempt follows.
C1_ExpiredTokenEndsLoop ==
    lastResp = "expired_token" =>
        /\ pc = "exited"
        /\ error = DeviceCodeExpired
        /\ exitCode = 1

\* C2: an access_denied answer to an exchange attempt ends the loop at once
\* with the authorization-denied failure.
C2_AccessDeniedEndsLoop ==
    lastResp = "access_denied" =>
        /\ pc = "exited"
        /\ error = AuthorizationDenied
        /\ exitCode = 1

\* C3: an authenticate run that began with a valid stored credential makes
\* no network call of any kind.
C3_ValidCredentialNoNetwork ==
    (cmd = "default" /\ startCase = "valid") =>
        deviceCodeReqs + tokenReqs + refreshReqs = 0

\* C4: an authenticate run that began with an expired stored credential
\* holding a refresh token starts a device flow only after a refresh request
\* (one that failed): a refresh that succeeds leaves no device-code request.
C4_RefreshBeforeDeviceFlow ==
    (cmd = "default" /\ startCase = "expired_refreshable" /\ deviceCodeReqs > 0) =>
        refreshReqs > 0

C6_AtMostSixtyAttempts ==
    /\ [](tokenReqs <= 60)
    /\ [](error = AuthenticationTimeout => (tokenReqs = 60 /\ pc = "exited" /\ exitCode = 1))
    /\ [][(pc = "poll_fetch" /\ tokenReqs = 60 /\ pc' # pc) =>
            (error' = AuthenticationTimeout /\ tokenReqs' = tokenReqs)]_vars

C6_Witness ==
    /\ pc = "exited"
    /\ error = AuthenticationTimeout
    /\ tokenReqs = 60

\* C7: a session that got authorization_pending, authorization_pending,
\* slow_down, success has waited 5000, 5000 and 7500 ms, has made exactly 4
\* attempts, holds the credential of the success response and has no wait
\* pending; every wait is of the interval as the slow_down just received (if
\* any) left it; and a success is the last attempt of its session.
C7_ScriptedSession ==
    /\ []((onScript /\ lastResp = "success") =>
            /\ tokenReqs = 4
            /\ waits = <<5000, 5000, 7500>>
            /\ wait = 0
            /\ credentials.t = "object"
            /\ pc = "exited")
    /\ [][(pc = "poll_fetch" /\ pc' = "poll_wait") =>
            /\ wait' = pollInterval'
            /\ pollInterval' = IF lastResp' = "slow_down"
                               THEN Min((pollInterval * 3) \div 2, 10000)
                               ELSE pollInterval]_vars
    /\ [][lastResp = "success" => tokenReqs' <= tokenReqs]_vars

C7_Witness ==
    /\ onScript
    /\ lastResp = "success"
    /\ tokenReqs = 4
    /\ exitCode = 0
    /\ pc = "exited"

\* C8: for the stored credential c and every time t, isTokenValid(c, t) is
\* true exactly when c is a record with an expiry_date and t is less than
\* expiry_date - 30000.
StoredExpiry == Get(loadCredentials(file).f, "expiry_date")

C8_ValidIffBeforeBuffer ==
    \A t \in Times :
        isTokenValid(loadCredentials(file), t) <=>
            /\ file.state = "json"
            /\ StoredExpiry.t = "number"
            /\ t < StoredExpiry.n - 30000

\* The check command ran on a credential exactly at the edge of the buffer.
C8_Witness ==
    /\ cmd = "check"
    /\ pc = "exited"
    /\ StoredExpiry.t = "number"
    /\ now = StoredExpiry.n - 30000
    /\ report = "Credentials found but expired"

\* C9: after clear, loadCredentials gives an absent credential (null, or
\* the empty object), and clear ended without raising.
C9_ClearLeavesAbsent ==
    (cmd = "clear" /\ pc = "exited") =>
        /\ loadCredentials(file).t = "null" \/ loadCredentials(file).f = EmptyObject
        /\ error = NoError
        /\ exitCode = 0

\* Deep equality of two values of loadCredentials, with a property that is
\* undefined taken as equal to a missing one.
DeepEqual(a, b) ==
    /\ a.t = b.t
    /\ \A k \in CredFields : Get(a.f, k) = Get(b.f, k)

\* C10: after an operation saved its credential, loadCredentials gives a
\* value deep-equal to it.
C10_SaveLoadRoundTrip ==
    (pc = "exited" /\ cmd \in {"default", "refreshToken"}
        /\ credentials.t = "object" /\ error = NoError) =>
        DeepEqual(loadCredentials(file), credentials)

\* C11: the check command reports "No credentials found" both for a missing
\* file and for a file holding the empty object.
C11_EmptyObjectIsAbsent ==
    (cmd = "check" /\ pc = "exited"
        /\ (file.state = "missing" \/ (file.state = "json" /\ file.json = EmptyObject))) =>
        report = "No credentials found"

\* C12: the credential file is never half-written: a save that fails leaves
\* the previous content in full.
C12_NeverHalfWritten == file.state # "truncated"

\* C13: the check command makes no network request, calls neither
\* saveCredentials nor unlink, leaves the credential file as it was, and
\* reports exactly one of absent, valid, expired.
C13_CheckReadOnly ==
    /\ [](cmd = "check" =>
            /\ deviceCodeReqs + tokenReqs + refreshReqs = 0
            /\ saveCalls = 0
            /\ report \in {"No credentials found", "Valid credentials found!",
                           "Credentials found but expired"}
            /\ error = NoError)
    /\ [][cmd' = "check" => file' = file]_vars

C13_Witness ==
    /\ cmd = "check"
    /\ pc = "exited"
    /\ report = "Credentials found but expired"
    /\ file.state = "json"
    /\ file.json # EmptyObject

\* C17: the credential file, when it holds an object, holds the empty object
\* or a record with an access_token and a numeric expiry_date.
C17_PersistedWellFormed ==
    file.state = "json" =>
        \/ file.json = EmptyObject
        \/ /\ file.json["access_token"].t = "string"
           /\ file.json["expiry_date"].t = "number"

\* C14: an authenticate run ends with exit code 0 exactly when it obtained
\* and saved a credential, and with a non-zero exit code when it ended with
\* an Error (device authorization failed, a rethrown denial or expiry, the
\* polling timeout, a failed save); while it runs no Error is recorded.
C14_ExitCodes ==
    /\ (cmd = "default" /\ pc = "exited" /\ error = NoError) =>
            /\ exitCode = 0
            /\ lastResp = "success"
            /\ report = "AUTHENTICATION SUCCESSFUL!"
    /\ (cmd = "default" /\ pc = "exited" /\ error # NoError) =>
            /\ exitCode # 0
            /\ report = ""
    /\ (cmd = "default" /\ pc # "exited") => (error = NoError /\ exitCode = 0)

C14_Witness ==
    /\ cmd = "default"
    /\ pc = "exited"
    /\ lastResp = "success"
    /\ Includes(error, "save failed")
    /\ exitCode = 1

\* The transient outcomes of an exchange attempt: an exception (transport
\* error, malformed body) and an error response with none of the four codes.
Transient == {"exception", "invalid_request"}

\* C15 as claimed: a transient failure never ends pollForToken; the loop
\* waits and no Error is raised.
C15_TransientNeverEnds ==
    lastResp \in Transient => (pc = "poll_wait" /\ error = NoError)

\* C15 as amended: a transient failure either leaves the loop waiting for
\* the unchanged pollInterval, after which the next attempt is made, or --
\* only when its message contains expired_token or access_denied -- is
\* rethrown and ends the run with exit code 1; a success at any attempt
\* yields the credential.
C15_TransientRetriedUnlessNamed ==
    /\ [](lastResp \in Transient =>
            \/ pc = "poll_wait" /\ wait = pollInterval /\ error = NoError
            \/ /\ pc = "exited"
               /\ exitCode = 1
               /\ Includes(error, "expired_token") \/ Includes(error, "access_denied"))
    /\ [][(lastResp' \in Transient /\ lastResp = "") => pollInterval' = pollInterval]_vars
    /\ [][(lastResp \in Transient /\ pc = "poll_wait" /\ pc' # pc) =>
            (pc' = "poll_fetch" /\ attempt' = attempt + 1 /\ tokenReqs' = tokenReqs)]_vars
    /\ [][(pc = "poll_fetch" /\ attempt < 60 /\ pc' # pc) => tokenReqs' = tokenReqs + 1]_vars
    /\ [](lastResp = "success" => credentials.t = "object")

\* A plain transient failure on the second attempt has the loop waiting.
C15_Witness ==
    /\ lastResp \in Transient
    /\ pc = "poll_wait"
    /\ tokenReqs = 2
    /\ wait = 5000

\* C16: in an authenticate run saveCredentials is called at most once, and
\* only on a successful exchange; a run that ended with an Error other than
\* a failed save never called it; a run that ended without Error called it
\* once and the file holds the credential of the exchange; a refresh the
\* server refused never called it; and every step of an authenticate or
\* refreshToken run that has not called it leaves the file unchanged.
C16_SavedOnlyOnSuccess ==
    /\ [](cmd = "default" => (saveCalls <= 1 /\ (saveCalls = 1 <=> lastResp = "success")))
    /\ []((cmd = "default" /\ pc = "exited" /\ error # NoError /\ ~Includes(error, "save failed"))
            => saveCalls = 0)
    /\ []((cmd = "default" /\ pc = "exited" /\ error = NoError) =>
            /\ saveCalls = 1
            /\ file = JsonFile(JSONstringify(credentials.f)))
    /\ []((cmd = "refreshToken" /\ refreshData = NoData) => saveCalls = 0)
    /\ []((cmd = "refreshToken" /\ error = NoError) => saveCalls = 1)
    /\ [][(cmd' \in {"default", "refreshToken"} /\ saveCalls' = 0) => file' = file]_vars

\* A run that timed out over a stored credential.
C16_Witness ==
    /\ cmd = "default"
    /\ pc = "exited"
    /\ error = AuthenticationTimeout
    /\ saveCalls = 0
    /\ file.state = "json"

\* C18: under FairSpec a polling session always ends -- with the credential
\* saved or not, or with an Error (rethrown denial or expiry, timeout) --
\* and until then has made at most 60 attempts and 60 waits (attempt counts
\* the waits that fired), none longer than 10000 ms.
C18_PollTerminates ==
    /\ (pc \in {"poll_fetch", "poll_wait"}) ~>
            (pc = "exited" /\ (lastResp = "success" \/ error # NoError))
    /\ [](attempt <= 60 /\ tokenReqs <= 60 /\ wait <= 10000)
    /\ [](pc = "poll_wait" => attempt < 60)

\* The longest session: 60 attempts, 60 waits, the last ones of 10000 ms.
C18_Witness ==
    /\ pc = "exited"
    /\ error = AuthenticationTimeout
    /\ attempt = 60
    /\ pollInterval = 10000

\* The refresh_token / resource_url part of C19 as claimed: a field the
\* success body carries replaces the stored one, a field it omits keeps it.
SuppliedReplaces(new, prev, d) ==
    \A k \in {"refresh_token", "resource_url"} :
        new[k] = IF d[k].t # "absent" THEN d[k] ELSE Get(prev, k)

\* The same part as the code has it: only a non-empty string replaces.
NonEmptyReplaces(new, prev, d) ==
    \A k \in {"refresh_token", "resource_url"} :
        new[k] = IF d[k].t = "string" /\ d[k].s # "" THEN d[k] ELSE Get(prev, k)

\* What C19 says of the other fields: access_token and token_type are the
\* response's, expiry_date is now + expires_in * 1000.
TakenFromResponse(new, d, t) ==
    /\ new["access_token"] = Get(d, "access_token")
    /\ new["token_type"] = Get(d, "token_type")
    /\ d["expires_in"].t = "number" => new["expiry_date"] = Num(t + d["expires_in"].n * 1000)

\* C19 as claimed: after a successful refresh the credential takes
\* access_token, token_type and expiry_date from the response, keeps the
\* previous refresh_token and resource_url when the response omits them, and
\* takes every one the response supplies.
C19_SuppliedAlwaysReplaces ==
    (cmd = "refreshToken" /\ pc = "exited" /\ error = NoError) =>
        /\ TakenFromResponse(credentials.f, refreshData, now)
        /\ SuppliedReplaces(credentials.f, refreshGiven.f, refreshData)

\* C19 as amended: as above, but a refresh_token or resource_url the response
\* sends empty or null counts as omitted and the previous value is kept;
\* the file holds the new credential.
C19_NonEmptyReplaces ==
    (cmd = "refreshToken" /\ pc = "exited" /\ error = NoError) =>
        /\ TakenFromResponse(credentials.f, refreshData, now)
        /\ NonEmptyReplaces(credentials.f, refreshGiven.f, refreshData)
        /\ file = JsonFile(JSONstringify(credentials.f))

\* A refresh whose response sent an empty refresh_token and a new
\* resource_url.
C19_Witness ==
    /\ cmd = "refreshToken"
    /\ pc = "exited"
    /\ error = NoError
    /\ refreshData["refresh_token"] = Str("")
    /\ refreshData["resource_url"] = Str("chat.qwen.ai")
    /\ credentials.f["refresh_token"] = refreshGiven.f["refresh_token"]
    /\ credentials.f["resource_url"] = Str("chat.qwen.ai")

\* C20: the interval is 5000 before the first attempt, always within
\* 5000..10000, changes within a session only on a slow_down answer and then
\* to 1.5 times its value (at most 10000), and never decreases within a
\* session; every attempt is followed by one wait of the current interval
\* before the next (at an attempt as many waits have fired as attempts were
\* made; during a wait, one less).
C20_IntervalDiscipline ==
    /\ [](pollInterval >= 5000 /\ pollInterval <= 10000)
    /\ [](tokenReqs = 0 => pollInterval = 5000)
    /\ [][(pollInterval' # pollInterval /\ pc' # "idle") =>
            (lastResp' = "slow_down" /\ pc = "poll_fetch")]_vars
    /\ [][(pc = "poll_fetch" /\ lastResp' = "slow_down") =>
            pollInterval' = Min((pollInterval * 3) \div 2, 10000)]_vars
    /\ [][pc' # "idle" => pollInterval' >= pollInterval]_vars
    /\ [](pc = "poll_fetch" => (attempt = tokenReqs /\ wait = 0))
    /\ [](pc = "poll_wait" => (attempt + 1 = tokenReqs /\ wait = pollInterval))
    /\ [][(pc = "poll_wait" /\ pc' # pc) => (pc' = "poll_fetch" /\ wait' = 0)]_vars

\* Two slow_down answers in a row: the second wait is of 10000 ms.
C20_Witness ==
    /\ pc = "poll_wait"
    /\ lastResp = "slow_down"
    /\ tokenReqs = 2
    /\ wait = 10000

====
